---- MODULE Spec2Model ----
(***************************************************************************)
(* A model of the agent collaboration platform: the A2A broker             *)
(* (broker_service.py), the Analyst step (analyst_service.py), the         *)
(* Researcher agent (researcher_service.py), the MCP registry              *)
(* (mcp_registry.py) and the frontend pipeline driver                      *)
(* (frontend_service.py).                                                  *)
(***************************************************************************)
EXTENDS Integers, Sequences, FiniteSets, TLC

\* ------------------------------------------------------------------------
\* Bounds of the model
\* ------------------------------------------------------------------------
\* Accepted /broker/send calls in one run of the broker specification.
MaxSends == 3

\* Calls of /produce_note_and_enqueue in one run of the pipeline.
MaxNotes == 1

\* Envelopes a client outside the platform sends in one run of the pipeline.
MaxClientSends == 1

\* Resources a client outside the platform creates in the registry.
MaxClientCreates == 1

\* ------------------------------------------------------------------------
\* Program constants (time in seconds)
\* ------------------------------------------------------------------------
\* deadline = start + 25.0
DEADLINE == 25

\* time.sleep(1.0)
SLEEP == 1

\* analyst_process_once: requests.post(..., timeout=30)
ANALYST_TIMEOUT == 30

\* frontend broker_poll: requests.get(..., timeout=15)
POLL_TIMEOUT == 15

\* ------------------------------------------------------------------------
\* Envelopes (A2AMessage)
\* ------------------------------------------------------------------------
\* The fields of A2AMessage, all required (no default).
A2AFields == {"sender", "receiver", "type", "payload", "conv_id"}

Restrict(f, S) == [x \in S |-> f[x]]

Range(s) == {s[i] : i \in DOMAIN s}

Envelope(s, r, ty, pl, c) ==
    Restrict([sender |-> s, receiver |-> r, type |-> ty, payload |-> pl, conv_id |-> c],
             A2AFields)

\* Pydantic's validation of a request body against A2AMessage: every field
\* is required.  A body that fails never reaches the handler (HTTP 422).
A2AMessageBroken(body) == "receiver" \in DOMAIN body

A2AMessage(body) == A2AFields \subseteq DOMAIN body

\* msg.dict(): the declared fields only; keys the model does not declare are
\* dropped by the parse.
MsgDictBroken(body) ==
    [f \in A2AFields \cap DOMAIN body |-> IF f = "payload" THEN << >> ELSE body[f]]

MsgDict(body) == Restrict(body, A2AFields \cap DOMAIN body)

\* ------------------------------------------------------------------------
\* QUEUES: Dict[str, deque] = defaultdict(deque)
\* ------------------------------------------------------------------------
\* The deque a key maps to; a key never referenced maps to a fresh empty one.
Mailbox(Q, k) == IF k \in DOMAIN Q THEN Q[k] ELSE << >>

\* QUEUES[k]: defaultdict.__getitem__ inserts the key when it is missing.
Touch(Q, k) == IF k \in DOMAIN Q THEN Q ELSE Q @@ (k :> << >>)

\* The key broker_send files a message under.
SendKeyBroken(msg) == msg.sender

SendKey(msg) == msg.receiver

\* deque.append, on the receiver's queue
DequeAppendBroken(Q, k, m) == [Touch(Q, k) EXCEPT ![k] = <<m>> \o @]

DequeAppend(Q, k, m) == [Touch(Q, k) EXCEPT ![k] = Append(@, m)]

\* deque.popleft: the element returned and the deque left
PopleftBroken(q) == [msg |-> q[Len(q)], rest |-> SubSeq(q, 1, Len(q) - 1)]

\* as if the head were read (q[0]) and left in place
PopleftPeek(q) == [msg |-> Head(q), rest |-> q]

Popleft(q) == [msg |-> Head(q), rest |-> Tail(q)]

\* `not QUEUES[agent]`
IsEmptyDequeBroken(Q, k) == k \notin DOMAIN Q

IsEmptyDeque(Q, k) == Len(Mailbox(Q, k)) = 0

\* Responses
EnqueuedResp(r, n) == [status |-> "enqueued", receiver |-> r, size |-> n]
EmptyResp == [status |-> "empty"]
OkResp(m) == [status |-> "ok", message |-> m]
SizeResp(a, n) == [agent |-> a, size |-> n]
\* FastAPI's answers outside the handlers' own: 422 for a body that fails
\* validation, 500 for an exception raised in a handler.
ValidationError == [status |-> "422"]
ServerError == [status |-> "500"]
NoResp == [status |-> "none"]

\* ------------------------------------------------------------------------
\* Inputs of the broker specification
\* ------------------------------------------------------------------------
AgentIds == {"Analyst", "Researcher", "Auditor"}

ConvIds == {"c1", "c2"}

\* A pointer "ctx://note/<rid>", held as its split("/").
Pointer(rid) == <<"ctx:", "", "note", rid>>

\* pointer.split("/")[-1]
RidOf(pointer) == pointer[Len(pointer)]

Payload(p) == [pointer |-> p, task |-> "summarise"]
NoPointerPayload == [task |-> "summarise"]

\* Well-formed request bodies ...
GoodBodies ==
    { Envelope("Researcher", "Analyst", "inform", Payload(Pointer("r1")), c) : c \in ConvIds }
    \cup { Envelope("Analyst", "Researcher", "confirm", Payload(Pointer("r1")), c) : c \in ConvIds }

\* ... the same with a key A2AMessage does not declare ...
ExtraBodies ==
    { Envelope("Researcher", "Analyst", "inform", Payload(Pointer("r1")), "c1")
        @@ ("trace" :> "t") }

\* ... and bodies that lack one required field.
BadBodies ==
    { Restrict(Envelope("Researcher", "Analyst", "inform", Payload(Pointer("r1")), "c1"),
               A2AFields \ {f}) : f \in A2AFields }

Bodies == GoodBodies \cup ExtraBodies \cup BadBodies

Threads == {"w1", "w2"}

VARIABLES
    QUEUES,     \* broker_service.QUEUES
    tpc,        \* per broker thread: where its handler stands
    tcall,      \* per broker thread: the call it is serving
    resp,       \* the response returned last: by which thread, to which call
    sentLog,    \* history: per receiver, the envelopes appended, in order
    polledLog   \* history: per agent, the envelopes popped, in order

VARIABLES
    CONTEXT_STORE,      \* mcp_registry.CONTEXT_STORE
    ANALYST_INBOX,      \* analyst_service.INBOX
    RESEARCHER_INBOX,   \* researcher_service.INBOX
    drv,                \* per run of run_pipeline: where it stands and its locals
    astep,              \* history: the last invocation of pull_process_and_reply
    env                 \* history: calls made from outside the pipeline so far

threadVars == <<tpc, tcall, resp, sentLog, polledLog>>

pipeVars == <<CONTEXT_STORE, ANALYST_INBOX, RESEARCHER_INBOX, drv, astep, env>>

vars == <<QUEUES, tpc, tcall, resp, sentLog, polledLog,
          CONTEXT_STORE, ANALYST_INBOX, RESEARCHER_INBOX, drv, astep, env>>

RECURSIVE SumLen(_, _)
SumLen(f, S) ==
    IF S = {} THEN 0
    ELSE LET k == CHOOSE x \in S : TRUE IN Len(f[k]) + SumLen(f, S \ {k})

TotalSent == SumLen(sentLog, AgentIds)

NoCall == [op |-> "none"]
SendCall(body) == [op |-> "send", body |-> body]
PollCall(agent) == [op |-> "poll", agent |-> agent]
SizeCall(agent) == [op |-> "size", agent |-> agent]

\* History: a send in flight with the length its append left the deque at.
Appended(call, n) == call @@ ("appended" :> n)

Returned(t, call, res) == [thread |-> t, call |-> call, res |-> res]

BrokerInit ==
    /\ QUEUES = [k \in {} |-> << >>]
    /\ tpc = [t \in Threads |-> "idle"]
    /\ tcall = [t \in Threads |-> NoCall]
    /\ resp = Returned("none", NoCall, NoResp)
    /\ sentLog = [a \in AgentIds |-> << >>]
    /\ polledLog = [a \in AgentIds |-> << >>]

\* POST /broker/send, up to and with line 57: the body is validated, and the
\* message appended to the receiver's queue.
BrokerSendCall(t, body) ==
    /\ tpc[t] = "idle"
    /\ TotalSent < MaxSends
    /\ IF ~A2AMessage(body)
       THEN /\ resp' = Returned(t, SendCall(body), ValidationError)
            /\ UNCHANGED <<QUEUES, tpc, tcall, sentLog>>
       ELSE LET msg == MsgDict(body)
                k == SendKey(msg)
            IN /\ QUEUES' = DequeAppend(QUEUES, k, msg)
               /\ sentLog' = [sentLog EXCEPT ![body.receiver] =
                                  Append(@, Restrict(body, A2AFields \cap DOMAIN body))]
               /\ tpc' = [tpc EXCEPT ![t] = "send_len"]
               /\ tcall' = [tcall EXCEPT ![t] =
                              Appended(SendCall(body), Len(QUEUES'[k]))]
               /\ UNCHANGED resp
    /\ UNCHANGED polledLog
    /\ UNCHANGED pipeVars

\* broker_send, lines 60-64: len(QUEUES[msg.receiver]) is read and returned.
BrokerSendReturn(t) ==
    /\ tpc[t] = "send_len"
    /\ LET r == MsgDict(tcall[t].body).receiver
       IN /\ QUEUES' = Touch(QUEUES, r)
          /\ resp' = Returned(t, SendCall(tcall[t].body),
                            EnqueuedResp(r, Len(Mailbox(QUEUES, r))))
    /\ tpc' = [tpc EXCEPT ![t] = "idle"]
    /\ tcall' = [tcall EXCEPT ![t] = NoCall]
    /\ UNCHANGED <<sentLog, polledLog>>
    /\ UNCHANGED pipeVars

\* GET /broker/poll/{agent}, lines 77-78: the emptiness test.
BrokerPollCall(t, agent) ==
    /\ tpc[t] = "idle"
    /\ QUEUES' = Touch(QUEUES, agent)
    /\ IF IsEmptyDeque(QUEUES, agent)
       THEN /\ resp' = Returned(t, PollCall(agent), EmptyResp)
            /\ UNCHANGED <<tpc, tcall>>
       ELSE /\ tpc' = [tpc EXCEPT ![t] = "poll_pop"]
            /\ tcall' = [tcall EXCEPT ![t] = PollCall(agent)]
            /\ UNCHANGED resp
    /\ UNCHANGED <<sentLog, polledLog>>
    /\ UNCHANGED pipeVars

\* broker_poll, lines 81-84: popleft and the answer.  popleft on a deque
\* that another thread emptied since the test raises IndexError.
BrokerPollPop(t) ==
    /\ tpc[t] = "poll_pop"
    /\ LET agent == tcall[t].agent
           q == Mailbox(QUEUES, agent)
       IN IF Len(q) = 0
          THEN /\ resp' = Returned(t, tcall[t], ServerError)
               /\ QUEUES' = Touch(QUEUES, agent)
               /\ UNCHANGED polledLog
          ELSE LET p == Popleft(q)
               IN /\ QUEUES' = [Touch(QUEUES, agent) EXCEPT ![agent] = p.rest]
                  /\ resp' = Returned(t, tcall[t], OkResp(p.msg))
                  /\ polledLog' = [polledLog EXCEPT ![agent] = Append(@, p.msg)]
    /\ tpc' = [tpc EXCEPT ![t] = "idle"]
    /\ tcall' = [tcall EXCEPT ![t] = NoCall]
    /\ UNCHANGED sentLog
    /\ UNCHANGED pipeVars

\* len(QUEUES[agent]), as broker_size reads it
QueueSizeBroken(Q, agent) == Cardinality(DOMAIN Touch(Q, agent))

QueueSize(Q, agent) == Len(Mailbox(Q, agent))

\* GET /broker/size/{agent}
BrokerSize(t, agent) ==
    /\ tpc[t] = "idle"
    /\ QUEUES' = Touch(QUEUES, agent)
    /\ resp' = Returned(t, SizeCall(agent), SizeResp(agent, QueueSize(QUEUES, agent)))
    /\ UNCHANGED <<tpc, tcall, sentLog, polledLog>>
    /\ UNCHANGED pipeVars

\* ------------------------------------------------------------------------
\* The broker's handlers run whole (one caller at a time)
\* ------------------------------------------------------------------------
\* broker_send: the state left and the response
BrokerSend(Q, body) ==
    IF ~A2AMessage(body)
    THEN [Q |-> Q, res |-> ValidationError]
    ELSE LET msg == MsgDict(body)
             Q1 == DequeAppend(Q, SendKey(msg), msg)
             Q2 == Touch(Q1, msg.receiver)
         IN [Q |-> Q2, res |-> EnqueuedResp(msg.receiver, Len(Q2[msg.receiver]))]

\* broker_poll: the state left and the response
BrokerPoll(Q, agent) ==
    IF IsEmptyDeque(Q, agent)
    THEN [Q |-> Touch(Q, agent), res |-> EmptyResp]
    ELSE LET p == Popleft(Mailbox(Q, agent))
         IN [Q |-> [Touch(Q, agent) EXCEPT ![agent] = p.rest], res |-> OkResp(p.msg)]

\* ------------------------------------------------------------------------
\* MCP registry
\* ------------------------------------------------------------------------
\* MCP_REGISTRY_TOKEN's default, the same in every service
REGISTRY_TOKEN == "teacher-secret"

Bearer(token) == <<"Bearer", token>>

\* uuid.uuid4(): an id no resource has yet
RidNames == <<"r1", "r2", "r3", "r4", "r5", "r6">>

FreshRidBroken(store) == RidNames[1]

FreshRid(store) == RidNames[Cardinality(DOMAIN store) + 1]

\* mcp_create: the store left and the response
McpCreate(store, data, owner, meta, authorization) ==
    IF authorization # Bearer(REGISTRY_TOKEN)
    THEN [store |-> store, status |-> "401"]
    ELSE LET rid == FreshRid(store)
         IN [store |-> (rid :> [data |-> data, owner |-> owner, meta |-> meta]) @@ store,
             status |-> "200", pointer |-> Pointer(rid), rid |-> rid]

\* mcp_fetch: the response
McpFetch(store, rid, authorization) ==
    IF authorization # Bearer(REGISTRY_TOKEN) THEN [status |-> "401"]
    ELSE IF rid \notin DOMAIN store THEN [status |-> "404"]
    ELSE [status |-> "200", rid |-> rid, data |-> store[rid].data,
          owner |-> store[rid].owner, meta |-> store[rid].meta]

\* mcp_list: the response
McpList(store, authorization) ==
    IF authorization # Bearer(REGISTRY_TOKEN) THEN [status |-> "401"]
    ELSE [status |-> "200",
          items |-> {[rid |-> rid, owner |-> store[rid].owner, meta |-> store[rid].meta] :
                        rid \in DOMAIN store}]

\* ------------------------------------------------------------------------
\* Analyst: pull_process_and_reply
\* ------------------------------------------------------------------------
None == [none |-> "None"]

\* call_groq's answer without GROQ_API_KEY
CannedAnalysis == "GROQ_API_KEY not set - returning canned response."

\* The reply envelope of lines 146-152.
AnalystReplyOtherConv(msg, analysis, pointer) ==
    Envelope("Analyst", "Researcher", "confirm",
             [analysis |-> analysis, source_pointer |-> pointer], "conv-001")

AnalystReplyToSender(msg, analysis, pointer) ==
    Envelope("Analyst", msg.sender, "confirm",
             [analysis |-> analysis, source_pointer |-> pointer], msg.conv_id)

\* as if the reply took its type from the envelope it answers
AnalystReplyEchoType(msg, analysis, pointer) ==
    Envelope("Analyst", "Researcher", msg.type,
             [analysis |-> analysis, source_pointer |-> pointer], msg.conv_id)

AnalystReply(msg, analysis, pointer) ==
    Envelope("Analyst", "Researcher", "confirm",
             [analysis |-> analysis, source_pointer |-> pointer], msg.conv_id)

\* What stops an invocation short: the service is not reachable ("down", as
\* when it is not started or its module does not load: line 91 of
\* analyst_service.py holds stray text), one of its outgoing calls raises, or
\* nothing; and whether a Groq key is set.
AnalystFaults == {"none", "nokey", "down", "poll", "fetch", "groq", "send"}

AStep(Q, inbox, status, inbound, reply) ==
    [Q |-> Q, inbox |-> inbox, status |-> status, inbound |-> inbound, reply |-> reply]

\* Lines 121-124: an envelope without pointer is dropped, nothing is sent.
IgnoredBroken(Q, inbox, msg) ==
    LET reply == AnalystReply(msg, "no pointer", << >>)
    IN AStep(BrokerSend(Q, reply).Q, inbox, "reply_enqueued", msg, reply)

Ignored(Q, inbox, msg) == AStep(Q, inbox, "ignored", msg, None)

\* msg["payload"].get("pointer"), None held as the empty pointer
PointerOf(msg) ==
    IF "pointer" \in DOMAIN msg.payload THEN msg.payload.pointer ELSE << >>

\* An exception raised after the poll (raise_for_status of lines 76 and 156,
\* or the Groq call) leaves the handler at once: the caller gets an error,
\* the envelope stays consumed and nothing is sent.
RaisedRequeue(Q, inbox, msg) ==
    AStep(BrokerSend(Q, msg).Q, inbox, "error", msg, None)

Raised(Q, inbox, msg) == AStep(Q, inbox, "error", msg, None)

\* One invocation of pull_process_and_reply, run whole: the broker and inbox
\* it leaves, its answer, the envelope it consumed and the reply it enqueued.
\* Its poll and its send work on different mailboxes and nothing it reads in
\* between is changed by another process, so running it in one step loses no
\* order of mailbox operations.
PullProcessAndReply(Q, store, inbox, fault) ==
    IF fault \in {"down", "poll"} THEN AStep(Q, inbox, "error", None, None)
    ELSE LET rp == BrokerPoll(Q, "Analyst")
         IN IF rp.res.status # "ok" THEN AStep(rp.Q, inbox, "no-messages", None, None)
            ELSE LET msg == rp.res.message
                     inbox1 == Append(inbox, msg)
                 IN IF PointerOf(msg) = << >>
                    THEN Ignored(rp.Q, inbox1, msg)
                    ELSE LET pointer == PointerOf(msg)
                             resource == McpFetch(store, RidOf(pointer), Bearer(REGISTRY_TOKEN))
                         IN IF fault = "fetch" \/ resource.status # "200"
                            THEN Raised(rp.Q, inbox1, msg)
                            ELSE IF fault = "groq"
                            THEN Raised(rp.Q, inbox1, msg)
                            ELSE LET analysis == IF fault = "nokey" THEN CannedAnalysis
                                                 ELSE "analysis"
                                     reply == AnalystReply(msg, analysis, pointer)
                                 IN IF fault = "send"
                                    THEN Raised(rp.Q, inbox1, msg)
                                    ELSE AStep(BrokerSend(rp.Q, reply).Q, inbox1,
                                               "reply_enqueued", msg, reply)

\* ------------------------------------------------------------------------
\* Frontend: run_pipeline
\* ------------------------------------------------------------------------
Drivers == {"d1", "d2"}

\* conv_id = f"conv-{uuid.uuid4()}": fresh for every run
ConvOfFixed(d) == "conv-001"

ConvOf(d) == IF d = "d1" THEN "conv-d1" ELSE "conv-d2"

\* Where a run ends: the three pages run_pipeline returns.
Outcomes == {"Failed", "Accepted", "TimedOut"}

DrvInit ==
    [pc |-> "idle", pointer |-> << >>, conv_id |-> "", reply_msg |-> None,
     attempts |-> 0, stray_msgs |-> << >>, elapsed |-> 0, popped |-> << >>,
     triggers |-> 0, polls |-> 0, sleeps |-> 0]

\* The request envelope of lines 181-187.
RequestMsg(pointer, conv_id) ==
    Envelope("Researcher", "Analyst", "inform", Payload(pointer), conv_id)

\* `time.time() < deadline`, on the time since `start`
BeforeDeadlineReversed(elapsed) == elapsed > DEADLINE

BeforeDeadline(elapsed) == elapsed < DEADLINE

\* Lines 217-223: what a round does with the poll's answer.
AfterPollKeepLast(st, polled) ==
    IF polled.status = "ok"
    THEN IF polled.message.conv_id = st.conv_id
         THEN [st EXCEPT !.reply_msg = polled.message, !.pc = "report"]
         ELSE [st EXCEPT !.stray_msgs = <<polled.message>>, !.pc = "sleep"]
    ELSE [st EXCEPT !.pc = "sleep"]

AfterPollAbortOnError(st, polled) ==
    IF polled.status = "ok"
    THEN IF polled.message.conv_id = st.conv_id
         THEN [st EXCEPT !.reply_msg = polled.message, !.pc = "report"]
         ELSE [st EXCEPT !.stray_msgs = Append(@, polled.message), !.pc = "sleep"]
    ELSE IF polled.status = "error" THEN [st EXCEPT !.pc = "report"]
    ELSE [st EXCEPT !.pc = "sleep"]

AfterPollAcceptAny(st, polled) ==
    IF polled.status = "ok"
    THEN [st EXCEPT !.reply_msg = polled.message, !.pc = "report"]
    ELSE [st EXCEPT !.pc = "sleep"]

\* as if the stray branch went back to the loop's test at once
AfterPollContinue(st, polled) ==
    IF polled.status = "ok"
    THEN IF polled.message.conv_id = st.conv_id
         THEN [st EXCEPT !.reply_msg = polled.message, !.pc = "report"]
         ELSE [st EXCEPT !.stray_msgs = Append(@, polled.message), !.pc = "loop"]
    ELSE [st EXCEPT !.pc = "sleep"]

AfterPoll(st, polled) ==
    IF polled.status = "ok"
    THEN IF polled.message.conv_id = st.conv_id
         THEN [st EXCEPT !.reply_msg = polled.message, !.pc = "report"]
         ELSE [st EXCEPT !.stray_msgs = Append(@, polled.message), !.pc = "sleep"]
    ELSE [st EXCEPT !.pc = "sleep"]

PipeInit ==
    /\ CONTEXT_STORE = [k \in {} |-> None]
    /\ ANALYST_INBOX = << >>
    /\ RESEARCHER_INBOX = << >>
    /\ drv = [d \in Drivers |-> DrvInit]
    /\ astep = [status |-> "none", inbound |-> None, reply |-> None, by |-> "none",
                log |-> {}]
    /\ env = [notes |-> 0, sends |-> 0, creates |-> 0, mcp |-> NoResp]

\* POST /run, step 1 (lines 167-177): mcp_put, or its exception.
DriverStart(d, ok) ==
    /\ drv[d].pc = "idle"
    /\ LET r == McpCreate(CONTEXT_STORE, "query", "Researcher",
                          [source |-> "frontend", kind |-> "user_query"],
                          Bearer(REGISTRY_TOKEN))
       IN IF ok /\ r.status = "200"
          THEN /\ CONTEXT_STORE' = r.store
               /\ drv' = [drv EXCEPT ![d].pc = "send", ![d].pointer = r.pointer]
          ELSE /\ drv' = [drv EXCEPT ![d].pc = "Failed"]
               /\ UNCHANGED CONTEXT_STORE
    /\ UNCHANGED <<QUEUES, ANALYST_INBOX, RESEARCHER_INBOX, astep, env>>
    /\ UNCHANGED threadVars

\* Step 2 and the loop's set-up (lines 180-201): the request is sent, or the
\* send raises.
DriverSendSwallow(d, ok) ==
    /\ drv[d].pc = "send"
    /\ LET msg == RequestMsg(drv[d].pointer, ConvOf(d))
           r == BrokerSend(QUEUES, msg)
       IN /\ QUEUES' = IF ok /\ r.res.status = "enqueued" THEN r.Q ELSE QUEUES
          /\ drv' = [drv EXCEPT ![d].pc = "loop", ![d].conv_id = ConvOf(d),
                                ![d].reply_msg = None, ![d].attempts = 0,
                                ![d].stray_msgs = << >>, ![d].elapsed = 0]
    /\ UNCHANGED <<CONTEXT_STORE, ANALYST_INBOX, RESEARCHER_INBOX, astep, env>>
    /\ UNCHANGED threadVars

DriverSend(d, ok) ==
    /\ drv[d].pc = "send"
    /\ LET msg == RequestMsg(drv[d].pointer, ConvOf(d))
           r == BrokerSend(QUEUES, msg)
       IN IF ok /\ r.res.status = "enqueued"
          THEN /\ QUEUES' = r.Q
               /\ drv' = [drv EXCEPT ![d].pc = "loop", ![d].conv_id = ConvOf(d),
                                     ![d].reply_msg = None, ![d].attempts = 0,
                                     ![d].stray_msgs = << >>, ![d].elapsed = 0]
          ELSE /\ drv' = [drv EXCEPT ![d].pc = "Failed", ![d].conv_id = ConvOf(d)]
               /\ UNCHANGED QUEUES
    /\ UNCHANGED <<CONTEXT_STORE, ANALYST_INBOX, RESEARCHER_INBOX, astep, env>>
    /\ UNCHANGED threadVars

\* `while time.time() < deadline:` and `attempts += 1` (lines 203-204)
DriverLoopTest(d) ==
    /\ drv[d].pc = "loop"
    /\ IF BeforeDeadline(drv[d].elapsed)
       THEN drv' = [drv EXCEPT ![d].pc = "trigger", ![d].attempts = @ + 1]
       ELSE drv' = [drv EXCEPT ![d].pc = "report"]
    /\ UNCHANGED <<QUEUES, CONTEXT_STORE, ANALYST_INBOX, RESEARCHER_INBOX, astep, env>>
    /\ UNCHANGED threadVars

\* analyst_process_once() inside try/except (lines 205-208): the Analyst's
\* handler runs (or not), takes dt, and whatever it answers is ignored.
DriverTrigger(d, dt, fault) ==
    /\ drv[d].pc = "trigger"
    /\ LET a == PullProcessAndReply(QUEUES, CONTEXT_STORE, ANALYST_INBOX, fault)
       IN /\ QUEUES' = a.Q
          /\ ANALYST_INBOX' = a.inbox
          /\ astep' = [status |-> IF fault = "down" THEN "down" ELSE a.status,
                       inbound |-> a.inbound, reply |-> a.reply, by |-> d,
                       log |-> IF a.reply = None THEN astep.log
                               ELSE astep.log \cup
                                    {[inbound |-> a.inbound, reply |-> a.reply,
                                      ended |-> {e \in Drivers :
                                                    drv[e].pc \in Outcomes}]}]
    /\ drv' = [drv EXCEPT ![d].pc = "poll", ![d].elapsed = @ + dt,
                          ![d].triggers = @ + 1]
    /\ UNCHANGED <<CONTEXT_STORE, RESEARCHER_INBOX, env>>
    /\ UNCHANGED threadVars

\* broker_poll("Researcher") inside try/except and the test of its answer
\* (lines 211-223).
DriverPoll(d, dt, ok) ==
    /\ drv[d].pc = "poll"
    /\ LET r == BrokerPoll(QUEUES, "Researcher")
           polled == IF ok THEN r.res ELSE [status |-> "error"]
           st == [drv[d] EXCEPT !.elapsed = @ + dt, !.polls = @ + 1,
                                !.popped = IF polled.status = "ok"
                                           THEN Append(@, polled.message) ELSE @]
       IN /\ QUEUES' = IF ok THEN r.Q ELSE QUEUES
          /\ drv' = [drv EXCEPT ![d] = AfterPoll(st, polled)]
    /\ UNCHANGED <<CONTEXT_STORE, ANALYST_INBOX, RESEARCHER_INBOX, astep, env>>
    /\ UNCHANGED threadVars

\* time.sleep(1.0) (line 225)
DriverSleep(d) ==
    /\ drv[d].pc = "sleep"
    /\ drv' = [drv EXCEPT ![d].pc = "loop", ![d].elapsed = @ + SLEEP,
                          ![d].sleeps = @ + 1]
    /\ UNCHANGED <<QUEUES, CONTEXT_STORE, ANALYST_INBOX, RESEARCHER_INBOX, astep, env>>
    /\ UNCHANGED threadVars

\* Steps 4-7 (lines 227-276): the page shown.
DriverReport(d) ==
    /\ drv[d].pc = "report"
    /\ drv' = [drv EXCEPT ![d].pc = IF drv[d].reply_msg = None THEN "TimedOut"
                                    ELSE "Accepted"]
    /\ UNCHANGED <<QUEUES, CONTEXT_STORE, ANALYST_INBOX, RESEARCHER_INBOX, astep, env>>
    /\ UNCHANGED threadVars

\* ------------------------------------------------------------------------
\* Researcher agent
\* ------------------------------------------------------------------------
\* The request envelope of lines 106-112.
NoteMsg(pointer) == Envelope("Researcher", "Analyst", "inform", Payload(pointer), "conv-001")

\* POST /produce_note_and_enqueue: mcp_put, then the send; either may raise.
ProduceNoteAndEnqueue(fault) ==
    /\ env.notes < MaxNotes
    /\ env' = [env EXCEPT !.notes = @ + 1]
    /\ LET r == McpCreate(CONTEXT_STORE, "note", "Researcher",
                          [topic |-> "EdTech"], Bearer(REGISTRY_TOKEN))
       IN IF fault = "mcp" \/ r.status # "200"
          THEN UNCHANGED <<CONTEXT_STORE, QUEUES>>
          ELSE /\ CONTEXT_STORE' = r.store
               /\ IF fault = "send"
                  THEN UNCHANGED QUEUES
                  ELSE QUEUES' = BrokerSend(QUEUES, NoteMsg(r.pointer)).Q
    /\ UNCHANGED <<ANALYST_INBOX, RESEARCHER_INBOX, drv, astep>>
    /\ UNCHANGED threadVars

\* POST /pull_reply_from_broker
PullReplyFromBroker ==
    /\ LET r == BrokerPoll(QUEUES, "Researcher")
       IN /\ QUEUES' = r.Q
          /\ RESEARCHER_INBOX' = IF r.res.status = "ok"
                                 THEN Append(RESEARCHER_INBOX, r.res.message)
                                 ELSE RESEARCHER_INBOX
    /\ UNCHANGED <<CONTEXT_STORE, ANALYST_INBOX, drv, astep, env>>
    /\ UNCHANGED threadVars

\* ------------------------------------------------------------------------
\* A client outside the platform, sending through the broker
\* ------------------------------------------------------------------------
ClientBodies ==
    { Envelope("Auditor", "Analyst", "request", Payload(Pointer("r1")), "conv-aud"),
      Envelope("Auditor", "Analyst", "inform", NoPointerPayload, "conv-d1"),
      Envelope("Auditor", "Researcher", "inform", NoPointerPayload, "conv-d1") }

ClientSend(body) ==
    /\ env.sends < MaxClientSends
    /\ env' = [env EXCEPT !.sends = @ + 1]
    /\ QUEUES' = BrokerSend(QUEUES, body).Q
    /\ UNCHANGED <<CONTEXT_STORE, ANALYST_INBOX, RESEARCHER_INBOX, drv, astep>>
    /\ UNCHANGED threadVars

\* The Authorization headers a client may present: the right token, a wrong
\* one, or none (Header(None)).
Authorizations == {Bearer(REGISTRY_TOKEN), Bearer("wrong"), <<"None">>}

\* The registry's endpoints called by a client outside the platform.
RegistryCreate(authorization) ==
    /\ env.creates < MaxClientCreates
    /\ LET r == McpCreate(CONTEXT_STORE, "other", "Auditor", [kind |-> "other"],
                          authorization)
       IN /\ CONTEXT_STORE' = r.store
          /\ env' = [env EXCEPT !.creates = @ + 1,
                                !.mcp = [x \in DOMAIN r \ {"store"} |-> r[x]]]
    /\ UNCHANGED <<QUEUES, ANALYST_INBOX, RESEARCHER_INBOX, drv, astep>>
    /\ UNCHANGED threadVars

RegistryFetch(rid, authorization) ==
    /\ env' = [env EXCEPT !.mcp = McpFetch(CONTEXT_STORE, rid, authorization)]
    /\ UNCHANGED <<QUEUES, CONTEXT_STORE, ANALYST_INBOX, RESEARCHER_INBOX, drv, astep>>
    /\ UNCHANGED threadVars

RegistryList(authorization) ==
    /\ env' = [env EXCEPT !.mcp = McpList(CONTEXT_STORE, authorization)]
    /\ UNCHANGED <<QUEUES, CONTEXT_STORE, ANALYST_INBOX, RESEARCHER_INBOX, drv, astep>>
    /\ UNCHANGED threadVars

\* ------------------------------------------------------------------------
\* Specifications
\* ------------------------------------------------------------------------
Init == BrokerInit /\ PipeInit

\* The broker alone, its handlers interleaved step by step.
Next ==
    \/ \E t \in Threads, body \in Bodies : BrokerSendCall(t, body)
    \/ \E t \in Threads : BrokerSendReturn(t)
    \/ \E t \in Threads, agent \in AgentIds : BrokerPollCall(t, agent)
    \/ \E t \in Threads : BrokerPollPop(t)
    \/ \E t \in Threads, agent \in AgentIds : BrokerSize(t, agent)

Spec == Init /\ [][Next]_vars

\* How long a call may take: no time, or all of its timeout.
CallTimes(timeout) == {0, timeout}

\* One run of the pipeline alone, its calls as fast or as slow as they may be.
TimeNext ==
    \/ \E ok \in BOOLEAN : DriverStart("d1", ok)
    \/ \E ok \in BOOLEAN : DriverSend("d1", ok)
    \/ DriverLoopTest("d1")
    \/ \E dt \in CallTimes(ANALYST_TIMEOUT), fault \in AnalystFaults :
           DriverTrigger("d1", dt, fault)
    \/ \E dt \in CallTimes(POLL_TIMEOUT), ok \in BOOLEAN : DriverPoll("d1", dt, ok)
    \/ DriverSleep("d1")
    \/ DriverReport("d1")

SpecTime == Init /\ [][TimeNext]_vars

\* Runs of the pipeline whose trigger returns at once and whose poll takes
\* all of its timeout: two rounds before the deadline.
RunNext(d) ==
    \/ \E ok \in BOOLEAN : DriverStart(d, ok)
    \/ \E ok \in BOOLEAN : DriverSend(d, ok)
    \/ DriverLoopTest(d)
    \/ \E fault \in AnalystFaults : DriverTrigger(d, 0, fault)
    \/ \E ok \in BOOLEAN : DriverPoll(d, POLL_TIMEOUT, ok)
    \/ DriverSleep(d)
    \/ DriverReport(d)

\* One run of the pipeline beside the Researcher agent and an outside client.
PipeNext ==
    \/ RunNext("d1")
    \/ \E fault \in {"none", "mcp", "send"} : ProduceNoteAndEnqueue(fault)
    \/ PullReplyFromBroker
    \/ \E body \in ClientBodies : ClientSend(body)

SpecPipe == Init /\ [][PipeNext]_vars

\* One run of the pipeline beside an outside client, the run in a worker
\* thread that keeps running: each of its calls returns (with an answer or
\* an exception) and its sleep ends.
RunFairNext ==
    \/ RunNext("d1")
    \/ \E body \in ClientBodies : ClientSend(body)

SpecRunFair == Init /\ [][RunFairNext]_vars /\ WF_vars(RunNext("d1"))

\* A run of the pipeline none of whose calls fails, timed as in RunNext.
FaultFreeRun(d) ==
    \/ DriverStart(d, TRUE)
    \/ DriverSend(d, TRUE)
    \/ DriverLoopTest(d)
    \/ \E fault \in {"none", "nokey"} : DriverTrigger(d, 0, fault)
    \/ DriverPoll(d, POLL_TIMEOUT, TRUE)
    \/ DriverSleep(d)
    \/ DriverReport(d)

\* Two overlapping runs of the pipeline, each in a worker thread of its own
\* that keeps running: every call returns and every sleep ends.
TwoNext == \E d \in Drivers : FaultFreeRun(d)

SpecTwo == Init /\ [][TwoNext]_vars /\ \A d \in Drivers : WF_vars(FaultFreeRun(d))

\* A run whose Analyst may be unreachable and whose first two calls may fail.
RunDown(d) ==
    \/ \E ok \in BOOLEAN : DriverStart(d, ok)
    \/ \E ok \in BOOLEAN : DriverSend(d, ok)
    \/ DriverLoopTest(d)
    \/ \E fault \in {"none", "down"} : DriverTrigger(d, 0, fault)
    \/ DriverPoll(d, POLL_TIMEOUT, TRUE)
    \/ DriverSleep(d)
    \/ DriverReport(d)

\* A run that may end without its request answered, a second run whose
\* calls succeed, and the Researcher agent pulling from its mailbox.
LateNext ==
    \/ RunDown("d1")
    \/ FaultFreeRun("d2")
    \/ PullReplyFromBroker

SpecLate == Init /\ [][LateNext]_vars

\* The resource ids a client asks for: two the program stores first and one
\* it never stores.
FetchRids == {"r1", "r2", "r6"}

\* The registry under one run of the pipeline whose calls succeed, the
\* Researcher agent and a client of its own.
StoreNext ==
    \/ FaultFreeRun("d1")
    \/ ProduceNoteAndEnqueue("none")
    \/ \E a \in Authorizations : RegistryCreate(a)
    \/ \E rid \in FetchRids, a \in Authorizations : RegistryFetch(rid, a)
    \/ \E a \in Authorizations : RegistryList(a)

SpecStore == Init /\ [][StoreNext]_vars

\* ------------------------------------------------------------------------
\* Properties of the broker
\* ------------------------------------------------------------------------
IsPrefix(s, t) == Len(s) <= Len(t) /\ SubSeq(t, 1, Len(s)) = s

\* C1 (per-recipient FIFO): for every recipient r, the envelopes the
\* status-"ok" polls of r have returned so far are, in order, a prefix of the
\* envelopes sent with receiver = r, and what is queued for r is the rest of
\* that send sequence in send order; so two envelopes sent to r before either
\* is polled come back in the order sent.
C1_PerRecipientFifo ==
    \A r \in AgentIds :
        /\ IsPrefix(polledLog[r], sentLog[r])
        /\ sentLog[r] = polledLog[r] \o Mailbox(QUEUES, r)

\* Two different envelopes sent to one recipient have both been polled, a
\* third is still queued.
C1_Witness ==
    \E r \in AgentIds :
        /\ Len(polledLog[r]) = 2
        /\ polledLog[r][1] # polledLog[r][2]
        /\ Len(sentLog[r]) = 3

\* C5 (destructive poll): a poll of r that finds the mailbox non-empty goes
\* on to the pop; a pop on a mailbox of length n >= 1 answers "ok" with the
\* head alone and leaves the tail, of length n - 1; a poll of a mailbox that
\* holds nothing (as after the pop of its only envelope) answers "empty".
C5_DestructivePoll ==
    [][\A t \in Threads :
         /\ \A a \in AgentIds :
               BrokerPollCall(t, a) =>
                 IF Len(Mailbox(QUEUES, a)) >= 1
                 THEN tpc'[t] = "poll_pop" /\ resp' = resp
                 ELSE tpc'[t] = "idle" /\ resp' = Returned(t, PollCall(a), EmptyResp)
         /\ (BrokerPollPop(t) /\ Len(Mailbox(QUEUES, tcall[t].agent)) >= 1) =>
               LET a == tcall[t].agent
                   q == Mailbox(QUEUES, a)
               IN /\ resp' = Returned(t, PollCall(a), OkResp(q[1]))
                  /\ Len(Mailbox(QUEUES', a)) = Len(q) - 1
                  /\ Mailbox(QUEUES', a) = SubSeq(q, 2, Len(q))
                  /\ tpc'[t] = "idle"
      ]_vars

\* A poll answered "empty" for a recipient whose envelopes (two at least,
\* different ones) have all been popped.
C5_Witness ==
    /\ resp.call.op = "poll"
    /\ resp.res = EmptyResp
    /\ Len(polledLog[resp.call.agent]) >= 2
    /\ polledLog[resp.call.agent][1] # polledLog[resp.call.agent][2]
    /\ sentLog[resp.call.agent] = polledLog[resp.call.agent]

\* The recipient a broker step works on.
StepTarget(t, a) ==
    \/ \E body \in Bodies : "receiver" \in DOMAIN body /\ body.receiver = a /\ BrokerSendCall(t, body)
    \/ tpc[t] = "send_len" /\ tcall[t].body.receiver = a /\ BrokerSendReturn(t)
    \/ BrokerPollCall(t, a)
    \/ tpc[t] = "poll_pop" /\ tcall[t].agent = a /\ BrokerPollPop(t)
    \/ BrokerSize(t, a)

\* C6 (isolation): no step of a send with receiver X, of a poll of X or of a
\* size query on X changes the mailbox of another recipient Y, nor what was
\* sent to or polled from Y.
C6_Isolation ==
    [][\A t \in Threads, X \in AgentIds :
         StepTarget(t, X) =>
           \A Y \in AgentIds \ {X} :
             /\ Mailbox(QUEUES', Y) = Mailbox(QUEUES, Y)
             /\ polledLog'[Y] = polledLog[Y]
      ]_vars

\* X has been sent two envelopes and polled once while Y holds one.
C6_Witness ==
    \E X \in AgentIds, Y \in AgentIds :
        /\ X # Y
        /\ Len(sentLog[X]) >= 2
        /\ Len(polledLog[X]) >= 1
        /\ Len(Mailbox(QUEUES, Y)) >= 1

\* C7 (idempotent empty poll): a poll of an agent whose mailbox holds no
\* envelope, whether or not the agent id was ever referenced, answers "empty"
\* at once, a size query on it answers 0, and either leaves the content of
\* every mailbox and the delivery history as they were.
C7_EmptyPollIdempotent ==
    [][\A t \in Threads, a \in AgentIds :
         (a \notin DOMAIN QUEUES \/ QUEUES[a] = << >>) =>
           /\ BrokerPollCall(t, a) =>
                /\ resp' = Returned(t, PollCall(a), EmptyResp)
                /\ tpc' = tpc
                /\ \A k \in AgentIds : Mailbox(QUEUES', k) = Mailbox(QUEUES, k)
                /\ polledLog' = polledLog
           /\ BrokerSize(t, a) =>
                /\ resp' = Returned(t, SizeCall(a), SizeResp(a, 0))
                /\ \A k \in AgentIds : Mailbox(QUEUES', k) = Mailbox(QUEUES, k)
      ]_vars

\* An "empty" answer for an agent that was never sent anything but has been
\* referenced, beside a mailbox that holds an envelope.
C7_Witness ==
    /\ resp.call.op = "poll"
    /\ resp.res = EmptyResp
    /\ resp.call.agent \in DOMAIN QUEUES
    /\ sentLog[resp.call.agent] = << >>
    /\ \E k \in AgentIds : Len(Mailbox(QUEUES, k)) >= 1

\* C10 (validation at send): a send whose body lacks a required field is
\* answered with the validation error and changes no mailbox; every queued
\* envelope has all five fields.
C10_ValidationAtSend ==
    /\ [][\A t \in Threads, body \in Bodies :
            (BrokerSendCall(t, body) /\ \E f \in A2AFields : f \notin DOMAIN body) =>
              /\ resp' = Returned(t, SendCall(body), ValidationError)
              /\ QUEUES' = QUEUES
              /\ sentLog' = sentLog
              /\ tpc' = tpc
         ]_vars
    /\ [](\A k \in DOMAIN QUEUES : \A i \in 1 .. Len(QUEUES[k]) :
             DOMAIN QUEUES[k][i] = A2AFields)

\* A body without conv_id was rejected while a mailbox holds an envelope.
C10_Witness ==
    /\ resp.call.op = "send"
    /\ resp.res = ValidationError
    /\ "conv_id" \notin DOMAIN resp.call.body
    /\ \E k \in AgentIds : Len(Mailbox(QUEUES, k)) >= 1

\* ------------------------------------------------------------------------
\* Properties of the pipeline
\* ------------------------------------------------------------------------
\* A step is an invocation of the Analyst's handler by run d of the pipeline.
IsTrigger(d) == drv[d].pc = "trigger" /\ drv'[d].pc = "poll"

\* The accepted reply of a run, as a list.
AcceptedReply(st) == IF st.reply_msg = None THEN << >> ELSE <<st.reply_msg>>

\* C2 (driver correlation and stray retention): whatever a run of the
\* pipeline holds as reply_msg carries the run's conv_id, no envelope of
\* stray_msgs does, and at every point of the run the envelopes it has popped
\* from the "Researcher" mailbox are, in pop order, stray_msgs followed by the
\* accepted reply: nothing popped is dropped.
C2_CorrelationAndStrays ==
    \A d \in Drivers :
        LET st == drv[d]
        IN /\ st.reply_msg # None => st.reply_msg.conv_id = st.conv_id
           /\ \A i \in DOMAIN st.stray_msgs : st.stray_msgs[i].conv_id # st.conv_id
           /\ st.popped = st.stray_msgs \o AcceptedReply(st)

\* A run has popped a stray and then accepted its reply.
C2_Witness ==
    \E d \in Drivers :
        /\ drv[d].pc = "Accepted"
        /\ Len(drv[d].stray_msgs) >= 1
        /\ Len(drv[d].popped) = Len(drv[d].stray_msgs) + 1

\* C3 (two concurrent exchanges): once the reply to a run's request waits in
\* the "Researcher" mailbox while that run is in a round of its loop, its
\* poll still ahead, the run eventually ends Accepted with the reply of its
\* own conv_id.
ReplyWaiting(d) ==
    \E i \in DOMAIN Mailbox(QUEUES, "Researcher") :
        /\ Mailbox(QUEUES, "Researcher")[i].sender = "Analyst"
        /\ Mailbox(QUEUES, "Researcher")[i].conv_id = ConvOf(d)

C3_EachDriverAccepted ==
    \A d \in Drivers :
        (drv[d].pc \in {"trigger", "poll"} /\ ReplyWaiting(d))
            ~> (drv[d].pc = "Accepted" /\ drv[d].reply_msg.conv_id = ConvOf(d))

\* C4 (deadline): a run that reports the timed-out outcome does so no later
\* than DEADLINE + SLEEP after its loop started, the time of its trigger and
\* poll calls counted.
C4_TimedOutByDeadline ==
    \A d \in Drivers :
        drv[d].pc = "TimedOut" => drv[d].elapsed <= DEADLINE + SLEEP

\* C8 (conversation id propagation): an invocation of the Analyst's handler
\* that enqueues a reply consumed the head of the "Analyst" mailbox, appends
\* the reply to the "Researcher" mailbox, and the reply carries the conv_id
\* of the envelope consumed; so the reply to a run's request carries the
\* run's conv_id.
C8_ConvIdPropagation ==
    [][\A d \in Drivers :
          IsTrigger(d) /\ astep'.reply # None =>
              /\ Mailbox(QUEUES, "Analyst") # << >>
              /\ astep'.inbound = Head(Mailbox(QUEUES, "Analyst"))
              /\ Mailbox(QUEUES', "Analyst") = Tail(Mailbox(QUEUES, "Analyst"))
              /\ astep'.reply \in Range(Mailbox(QUEUES', "Researcher"))
              /\ astep'.reply.conv_id = astep'.inbound.conv_id
              /\ \A e \in Drivers :
                     astep'.inbound = RequestMsg(drv[e].pointer, drv[e].conv_id)
                         => astep'.reply.conv_id = drv[e].conv_id]_vars

\* The reply to a run's own request has been enqueued.
C8_Witness ==
    \E d \in Drivers :
        /\ astep.reply # None
        /\ drv[d].conv_id # ""
        /\ astep.inbound = RequestMsg(drv[d].pointer, drv[d].conv_id)
        /\ astep.reply.conv_id = drv[d].conv_id
        /\ astep.reply \in Range(Mailbox(QUEUES, "Researcher"))

\* C9 as stated (reply routing): the reply of an invocation has sender
\* "Analyst", type "confirm" and, as receiver, the sender of the envelope
\* consumed.
C9_ReplyToOriginalSender ==
    astep.reply # None =>
        /\ astep.reply.sender = "Analyst"
        /\ astep.reply.type = "confirm"
        /\ astep.reply.receiver = astep.inbound.sender

\* C9 as amended: the reply of an invocation has sender "Analyst", type
\* "confirm" and receiver "Researcher" whatever the sender of the envelope
\* consumed; it is appended to the "Researcher" mailbox and every other
\* mailbox but the "Analyst" one, the original sender's included, is left as
\* it was.
C9_ReplyToResearcher ==
    [][\A d \in Drivers :
          IsTrigger(d) /\ astep'.reply # None =>
              /\ astep'.reply.sender = "Analyst"
              /\ astep'.reply.type = "confirm"
              /\ astep'.reply.receiver = "Researcher"
              /\ Mailbox(QUEUES', "Researcher")
                     = Append(Mailbox(QUEUES, "Researcher"), astep'.reply)
              /\ \A k \in AgentIds \ {"Analyst", "Researcher"} :
                     Mailbox(QUEUES', k) = Mailbox(QUEUES, k)]_vars

\* The reply to an envelope whose sender is not "Researcher" waits in the
\* "Researcher" mailbox.
C9_Witness ==
    /\ astep.reply # None
    /\ astep.inbound.sender = "Auditor"
    /\ astep.reply \in Range(Mailbox(QUEUES, "Researcher"))
    /\ Mailbox(QUEUES, "Auditor") = << >>

\* ------------------------------------------------------------------------
\* Properties of the broker under concurrent calls
\* ------------------------------------------------------------------------
\* C11 (send result): every accepted send answers "enqueued" with the
\* envelope's receiver and, as size, the length its own append left the
\* receiver's mailbox at, whatever other calls ran in between.
C11_SendResult ==
    [][\A t \in Threads :
          BrokerSendReturn(t) =>
              resp'.res = EnqueuedResp(MsgDict(tcall[t].body).receiver,
                                       tcall[t].appended)]_vars

\* C12 (atomicity of dequeue): no poll ends with an error; each ends with
\* "empty" or with "ok" and one envelope.
C12_PollNeverErrs ==
    resp.call.op = "poll" =>
        \/ resp.res = EmptyResp
        \/ /\ resp.res.status = "ok"
           /\ DOMAIN resp.res = {"status", "message"}

\* ------------------------------------------------------------------------
\* Properties of the Analyst step and of the pipeline under failures
\* ------------------------------------------------------------------------
\* C13 (missing pointer): an invocation that polls an envelope without
\* pointer answers "ignored", has taken the envelope off the "Analyst"
\* mailbox and kept it in its inbox, and enqueues nothing in any mailbox; the
\* round of the run that triggered it, finding no envelope of its conv_id at
\* the head of the "Researcher" mailbox, goes on to its sleep and the next
\* deadline test, and a run that ends without having popped an envelope of
\* its conv_id ends timed out.
C13_MissingPointerIgnored ==
    /\ [][\A d \in Drivers :
             IsTrigger(d) /\ astep'.inbound # None /\ PointerOf(astep'.inbound) = << >> =>
                 /\ astep'.status = "ignored"
                 /\ astep'.reply = None
                 /\ astep'.inbound = Head(Mailbox(QUEUES, "Analyst"))
                 /\ Mailbox(QUEUES', "Analyst") = Tail(Mailbox(QUEUES, "Analyst"))
                 /\ ANALYST_INBOX' = Append(ANALYST_INBOX, astep'.inbound)
                 /\ \A k \in AgentIds \ {"Analyst"} :
                        Mailbox(QUEUES', k) = Mailbox(QUEUES, k)]_vars
    /\ [][\A d \in Drivers :
             /\ drv[d].pc = "poll" /\ drv'[d].pc # "poll"
             /\ astep.status = "ignored" /\ astep.by = d
             /\ \/ Mailbox(QUEUES, "Researcher") = << >>
                \/ Head(Mailbox(QUEUES, "Researcher")).conv_id # drv[d].conv_id
             => drv'[d].pc = "sleep" /\ drv'[d].reply_msg = None]_vars
    /\ [](\A d \in Drivers :
             /\ drv[d].pc \in {"TimedOut", "Accepted"}
             /\ \A i \in DOMAIN drv[d].popped : drv[d].popped[i].conv_id # drv[d].conv_id
             => drv[d].pc = "TimedOut")

\* The run's last trigger had an envelope of the run's conv_id, without
\* pointer, ignored; the run has ended timed out.
C13_Witness ==
    \E d \in Drivers :
        /\ drv[d].pc = "TimedOut"
        /\ astep.status = "ignored"
        /\ astep.by = d
        /\ astep.inbound.conv_id = drv[d].conv_id
        /\ Mailbox(QUEUES, "Researcher") = << >>

\* C14 (analysis unavailable): an invocation that has consumed an envelope
\* with a pointer the registry resolves, while no Groq key is configured or
\* the Groq call fails, enqueues a reply with a placeholder analysis and the
\* conv_id of the envelope consumed.
AnalysisInput ==
    /\ Mailbox(QUEUES, "Analyst") # << >>
    /\ PointerOf(Head(Mailbox(QUEUES, "Analyst"))) # << >>
    /\ RidOf(PointerOf(Head(Mailbox(QUEUES, "Analyst")))) \in DOMAIN CONTEXT_STORE

C14_PlaceholderReply ==
    [][\A d \in Drivers, fault \in {"nokey", "groq"} :
          AnalysisInput /\ DriverTrigger(d, 0, fault) =>
              /\ astep'.reply # None
              /\ astep'.reply.payload.analysis = CannedAnalysis
              /\ astep'.reply.conv_id = Head(Mailbox(QUEUES, "Analyst")).conv_id
              /\ astep'.reply \in Range(Mailbox(QUEUES', "Researcher"))]_vars

\* The envelopes of run d's exchange: its request and the replies to it.
OfExchange(d, m) == m.conv_id = ConvOf(d) /\ m.sender \in {"Researcher", "Analyst"}

\* C15 (init failure): a run whose store call or whose send fails ends
\* Failed by a step that changes no mailbox; a Failed run has made no round
\* and popped nothing, no mailbox holds an envelope of its exchange, and it
\* stays Failed: it never waits, accepts or times out.
C15_InitFailure ==
    /\ [][\A d \in Drivers :
             DriverStart(d, FALSE) \/ DriverSend(d, FALSE) =>
                 drv'[d].pc = "Failed" /\ QUEUES' = QUEUES /\ astep' = astep]_vars
    /\ [][\A d \in Drivers : drv[d].pc = "Failed" => drv'[d] = drv[d]]_vars
    /\ [][\A d \in Drivers :
             drv'[d].pc = "Failed" => drv[d].pc \in {"idle", "send", "Failed"}]_vars
    /\ [](\A d \in Drivers :
             drv[d].pc = "Failed" =>
                 /\ drv[d].attempts = 0
                 /\ drv[d].popped = << >>
                 /\ drv[d].reply_msg = None
                 /\ astep.by # d
                 /\ \A k \in AgentIds :
                        \A i \in DOMAIN Mailbox(QUEUES, k) :
                            ~OfExchange(d, Mailbox(QUEUES, k)[i]))

\* A run whose document was stored has ended Failed at its send, while a
\* mailbox holds another party's envelope.
C15_Witness ==
    \E d \in Drivers :
        /\ drv[d].pc = "Failed"
        /\ drv[d].pointer # << >>
        /\ RidOf(drv[d].pointer) \in DOMAIN CONTEXT_STORE
        /\ Mailbox(QUEUES, "Analyst") # << >>

\* The positions of a run inside its wait loop.
InLoop == {"loop", "trigger", "poll", "sleep"}

\* C16 (transient errors): inside the wait loop a trigger that fails, in
\* whatever way, leads to the round's poll, and a poll that fails to the
\* round's sleep; the loop is left only for the report, and only with an
\* envelope of the run's conv_id accepted or with the deadline passed; a run
\* that accepts ends Accepted.
C16_TransientErrorsAbsorbed ==
    /\ [][\A d \in Drivers :
             /\ (\A f \in AnalystFaults \ {"none", "nokey"} :
                     DriverTrigger(d, 0, f) => drv'[d].pc = "poll")
             /\ (DriverPoll(d, POLL_TIMEOUT, FALSE) =>
                     drv'[d].pc = "sleep" /\ drv'[d].reply_msg = None)]_vars
    /\ [][\A d \in Drivers :
             drv[d].pc \in InLoop /\ drv'[d].pc \notin InLoop =>
                 /\ drv'[d].pc = "report"
                 /\ \/ /\ drv'[d].reply_msg # None
                       /\ drv'[d].reply_msg.conv_id = drv[d].conv_id
                    \/ /\ drv[d].pc = "loop"
                       /\ ~BeforeDeadline(drv[d].elapsed)]_vars
    /\ [][\A d \in Drivers :
             drv[d].pc = "report" /\ drv[d].reply_msg # None /\ drv'[d] # drv[d] =>
                 drv'[d].pc = "Accepted"]_vars

\* With no other party sending, the run's first round failed (its trigger
\* did not reach the request, or its poll raised) and its second round
\* accepted the reply.
C16_Witness ==
    \E d \in Drivers :
        /\ drv[d].pc = "Accepted"
        /\ drv[d].attempts = 2
        /\ drv[d].stray_msgs = << >>
        /\ env.notes = 0
        /\ env.sends = 0
        /\ drv[d].reply_msg.sender = "Analyst"

\* C17 (Agent Step down): a run has ended while the Analyst consumed no
\* envelope at all (every trigger failed before or at its poll) and no
\* outside client sent anything; then it ended timed out, after at least one
\* round, with no stray, and its request is still in the "Analyst" mailbox.
C17_AgentStepDown ==
    \A d \in Drivers :
        /\ drv[d].pc \in {"Accepted", "TimedOut"}
        /\ ANALYST_INBOX = << >>
        /\ env.sends = 0
        => /\ drv[d].pc = "TimedOut"
           /\ drv[d].attempts >= 1
           /\ drv[d].stray_msgs = << >>
           /\ drv[d].popped = << >>
           /\ RequestMsg(drv[d].pointer, drv[d].conv_id)
                  \in Range(Mailbox(QUEUES, "Analyst"))

\* The run timed out after two rounds whose triggers found the service
\* down; the request still waits behind a Researcher note.
C17_Witness ==
    \E d \in Drivers :
        /\ drv[d].pc = "TimedOut"
        /\ drv[d].attempts = 2
        /\ astep.status = "down"
        /\ ANALYST_INBOX = << >>
        /\ env.sends = 0
        /\ Len(Mailbox(QUEUES, "Analyst")) = 2

\* C18 (envelope round trip): the envelope a poll of r returns is, field for
\* field, the one passed to the send that queued it (the next one sent to r
\* and not yet polled), and no step changes an envelope that stays queued:
\* a mailbox changes only by losing its head or gaining a last element.
C18_EnvelopeRoundTrip ==
    /\ [][\A t \in Threads :
             BrokerPollPop(t) /\ resp'.res.status = "ok" =>
                 LET r == tcall[t].agent
                     sent == sentLog[r][Len(polledLog[r]) + 1]
                 IN /\ DOMAIN resp'.res.message = A2AFields
                    /\ \A f \in A2AFields : resp'.res.message[f] = sent[f]]_vars
    /\ [][\A k \in AgentIds :
             \/ Mailbox(QUEUES', k) = Mailbox(QUEUES, k)
             \/ /\ Mailbox(QUEUES, k) # << >>
                /\ Mailbox(QUEUES', k) = Tail(Mailbox(QUEUES, k))
             \/ /\ Mailbox(QUEUES', k) # << >>
                /\ SubSeq(Mailbox(QUEUES', k), 1, Len(Mailbox(QUEUES', k)) - 1)
                       = Mailbox(QUEUES, k)]_vars

\* The first of two envelopes sent to one receiver came back from a poll,
\* as sent, while the mailbox holds another.
C18_Witness ==
    /\ resp.call.op = "poll"
    /\ resp.res.status = "ok"
    /\ resp.res.message.conv_id = "c1"
    /\ Len(sentLog[resp.call.agent]) >= 2
    /\ resp.res.message = sentLog[resp.call.agent][1]
    /\ Len(Mailbox(QUEUES, resp.call.agent)) >= 1

\* ------------------------------------------------------------------------
\* Properties of the registry
\* ------------------------------------------------------------------------
\* A run whose request has been sent.
HasSent(d) == drv[d].pc \in InLoop \cup {"report", "Accepted", "TimedOut"}

\* C19 (append-only store): no step changes or removes an entry the store
\* holds; the pointer of a run's sent request dereferences, for an
\* authorised fetch, to the document the run stored; a create, fetch or list
\* presenting another credential, or none, is answered Unauthorized and
\* leaves the store as it was, and an authorised fetch or list leaves it so
\* too.
C19_StoreAppendOnly ==
    /\ [][\A rid \in DOMAIN CONTEXT_STORE :
             /\ rid \in DOMAIN CONTEXT_STORE'
             /\ CONTEXT_STORE'[rid] = CONTEXT_STORE[rid]]_vars
    /\ [](\A d \in Drivers :
             HasSent(d) =>
                 McpFetch(CONTEXT_STORE, RidOf(drv[d].pointer), Bearer(REGISTRY_TOKEN))
                     = [status |-> "200", rid |-> RidOf(drv[d].pointer),
                        data |-> "query", owner |-> "Researcher",
                        meta |-> [source |-> "frontend", kind |-> "user_query"]])
    /\ [][\A a \in Authorizations \ {Bearer(REGISTRY_TOKEN)} :
             \/ RegistryCreate(a)
             \/ RegistryList(a)
             \/ \E rid \in FetchRids : RegistryFetch(rid, a)
             => env'.mcp = [status |-> "401"] /\ CONTEXT_STORE' = CONTEXT_STORE]_vars
    /\ [][(\/ RegistryList(Bearer(REGISTRY_TOKEN))
           \/ \E rid \in FetchRids : RegistryFetch(rid, Bearer(REGISTRY_TOKEN)))
          => CONTEXT_STORE' = CONTEXT_STORE]_vars

\* After the run's request was sent, a note and a client's resource were
\* stored and an authorised fetch returned the run's document.
C19_Witness ==
    \E d \in Drivers :
        /\ HasSent(d)
        /\ Cardinality(DOMAIN CONTEXT_STORE) = 3
        /\ RidOf(drv[d].pointer) = "r1"
        /\ env.mcp = [status |-> "200", rid |-> "r1", data |-> "query",
                      owner |-> "Researcher",
                      meta |-> [source |-> "frontend", kind |-> "user_query"]]

\* ------------------------------------------------------------------------
\* Termination of the pipeline
\* ------------------------------------------------------------------------
\* C20 (termination and outcome): every run that is started ends in one of
\* Failed, Accepted and TimedOut and stays there; it ends Failed only from
\* its store call or its send, Accepted only holding as reply_msg an
\* envelope of its conv_id that it popped, and TimedOut only from the loop
\* left with the deadline passed, reply_msg unset and no envelope of its
\* conv_id popped.
C20_TerminationAndOutcome ==
    /\ \A d \in Drivers : (drv[d].pc # "idle") ~> (drv[d].pc \in Outcomes)
    /\ [][\A d \in Drivers : drv[d].pc \in Outcomes => drv'[d] = drv[d]]_vars
    /\ [][\A d \in Drivers :
             drv[d].pc \notin Outcomes /\ drv'[d].pc = "Failed" =>
                 drv[d].pc \in {"idle", "send"}]_vars
    /\ [](\A d \in Drivers :
             /\ drv[d].pc = "Accepted" =>
                    /\ drv[d].reply_msg # None
                    /\ drv[d].reply_msg.conv_id = drv[d].conv_id
                    /\ drv[d].reply_msg \in Range(drv[d].popped)
             /\ drv[d].pc = "TimedOut" =>
                    /\ drv[d].reply_msg = None
                    /\ ~BeforeDeadline(drv[d].elapsed)
                    /\ \A i \in DOMAIN drv[d].popped :
                           drv[d].popped[i].conv_id # drv[d].conv_id)

\* A run ended Accepted after a stray, in a behaviour where another could
\* end timed out or Failed.
C20_Witness ==
    \E d \in Drivers :
        /\ drv[d].pc = "Accepted"
        /\ Len(drv[d].stray_msgs) = 1
        /\ drv[d].attempts = 2
        /\ drv[d].reply_msg.sender = "Analyst"


\* ------------------------------------------------------------------------
\* Properties of the Analyst's step after it has consumed
\* ------------------------------------------------------------------------
\* Everything ever addressed to the Analyst: what its step has consumed, then
\* what still waits in its mailbox.
AnalystHistory(Q, inbox) == inbox \o Mailbox(Q, "Analyst")

\* C21 (no rollback after consumption): a step of the Analyst that popped an
\* envelope and then failed (its fetch answered not-found or raised, or its
\* send raised) answers its caller with an error, leaves the Analyst's
\* mailbox at the tail of what it was, changes no other mailbox and enqueues
\* no reply; and in every step what the Analyst has consumed followed by
\* what waits for it only grows at its end, so that no later invocation
\* meets the popped envelope again.
C21_NoRollback ==
    [][/\ \A d \in Drivers :
            (IsTrigger(d) /\ astep'.status = "error" /\ astep'.inbound # None) =>
                /\ Mailbox(QUEUES, "Analyst") # << >>
                /\ astep'.inbound = Head(Mailbox(QUEUES, "Analyst"))
                /\ Mailbox(QUEUES', "Analyst") = Tail(Mailbox(QUEUES, "Analyst"))
                /\ \A k \in (DOMAIN QUEUES \cup DOMAIN QUEUES') \ {"Analyst"} :
                       Mailbox(QUEUES', k) = Mailbox(QUEUES, k)
                /\ astep'.reply = None
                /\ ANALYST_INBOX' = Append(ANALYST_INBOX, astep'.inbound)
       /\ IsPrefix(AnalystHistory(QUEUES, ANALYST_INBOX),
                   AnalystHistory(QUEUES', ANALYST_INBOX'))
      ]_vars

\* The step was invoked again after one that consumed an envelope with a
\* pointer and failed: it found nothing, and no reply is in any mailbox or
\* was ever polled.
C21_Witness ==
    /\ astep.status = "no-messages"
    /\ drv["d1"].attempts = 2
    /\ Len(ANALYST_INBOX) = 1
    /\ PointerOf(ANALYST_INBOX[1]) # << >>
    /\ \A k \in DOMAIN QUEUES : Mailbox(QUEUES, k) = << >>
    /\ drv["d1"].popped = << >>
    /\ RESEARCHER_INBOX = << >>


\* ------------------------------------------------------------------------
\* Properties of the rounds of run_pipeline
\* ------------------------------------------------------------------------
\* 1 if the run stands at pc (the call of that pc is due and not yet made)
Due(st, pc) == IF st.pc = pc THEN 1 ELSE 0

\* 1 once a reply has been accepted
Got(st) == IF st.reply_msg # None THEN 1 ELSE 0

\* C22 (round structure): in every state of a run, the triggers issued are
\* as many as attempts (one fewer exactly while the trigger of the round
\* just counted is due), the polls returned are as many as the triggers
\* (one fewer exactly while the round's poll is due), the sleeps are as many
\* as the polls that did not accept (one fewer exactly while the sleep is
\* due); every poll pops at most one envelope, and
\* len(stray_msgs) + (1 if accepted else 0) <= attempts.  A trigger is due
\* only when the poll and the sleep of every earlier round are done.
C22_RoundStructure ==
    \A d \in Drivers :
        LET st == drv[d]
        IN /\ st.triggers = st.attempts - Due(st, "trigger")
           /\ st.polls = st.triggers - Due(st, "poll")
           /\ st.sleeps = st.polls - Got(st) - Due(st, "sleep")
           /\ Len(st.popped) <= st.polls
           /\ Len(st.popped) = Len(st.stray_msgs) + Got(st)
           /\ Len(st.stray_msgs) + Got(st) <= st.attempts
           /\ st.pc = "trigger" => st.polls = st.triggers /\ st.sleeps = st.polls

\* Two rounds: the first popped a stray, the second the reply.
C22_Witness ==
    /\ drv["d1"].attempts = 2
    /\ drv["d1"].triggers = 2
    /\ drv["d1"].polls = 2
    /\ drv["d1"].sleeps = 1
    /\ Len(drv["d1"].stray_msgs) = 1
    /\ drv["d1"].pc = "Accepted"


\* ------------------------------------------------------------------------
\* Delivery and conservation in the broker under concurrent calls
\* ------------------------------------------------------------------------
\* How many times m occurs in the sequence s
Count(s, m) == Cardinality({i \in 1..Len(s) : s[i] = m})

\* C23 (at-most-once delivery): however sends and polls interleave, for
\* every recipient r and envelope m the status-"ok" polls of r have returned
\* m at most as many times as m was sent to r, so no enqueued envelope is
\* delivered twice; every envelope a poll returns was sent, to the recipient
\* polled; and the envelopes delivered are never more than those sent.
C23_AtMostOnce ==
    /\ \A r \in AgentIds :
          /\ Len(polledLog[r]) <= Len(sentLog[r])
          /\ \A m \in Range(polledLog[r]) :
                /\ Count(polledLog[r], m) <= Count(sentLog[r], m)
                /\ m.receiver = r
    /\ (resp.call.op = "poll" /\ resp.res.status = "ok") =>
          /\ resp.res.message \in Range(sentLog[resp.call.agent])
          /\ resp.res.message \in Range(polledLog[resp.call.agent])

\* Two pollers of one recipient both found its last envelope waiting; one
\* of them was given it, the other was given none.
C23_Witness ==
    /\ resp.call.op = "poll"
    /\ resp.res = ServerError
    /\ Len(sentLog[resp.call.agent]) >= 1
    /\ polledLog[resp.call.agent] = sentLog[resp.call.agent]
    /\ Mailbox(QUEUES, resp.call.agent) = << >>


\* C24 (mailbox conservation): in every state and for every recipient r the
\* length of r's mailbox is the number of accepted sends with receiver = r
\* less the number of status-"ok" polls of r, and is not negative; every
\* envelope stored is stored under its own receiver; and broker_size answers
\* that number for the agent asked about and leaves every mailbox as it was.
C24_Conservation ==
    /\ [](/\ \A r \in AgentIds :
               /\ Len(Mailbox(QUEUES, r)) = Len(sentLog[r]) - Len(polledLog[r])
               /\ Len(Mailbox(QUEUES, r)) >= 0
          /\ \A k \in DOMAIN QUEUES : \A m \in Range(QUEUES[k]) : m.receiver = k
          /\ resp.call.op = "size" =>
                /\ resp.res.agent = resp.call.agent
                /\ resp.res.size >= 0)
    /\ [][\A t \in Threads, a \in AgentIds :
            BrokerSize(t, a) =>
                /\ resp'.res = SizeResp(a, Len(sentLog[a]) - Len(polledLog[a]))
                /\ \A k \in DOMAIN QUEUES \cup DOMAIN QUEUES' :
                       Mailbox(QUEUES', k) = Mailbox(QUEUES, k)
                /\ sentLog' = sentLog /\ polledLog' = polledLog
         ]_vars

\* broker_size answered 1 for a recipient sent two envelopes of which one
\* was polled, while another recipient's mailbox holds an envelope too.
C24_Witness ==
    /\ resp.call.op = "size"
    /\ resp.res.size = 1
    /\ Len(sentLog[resp.call.agent]) = 2
    /\ Len(polledLog[resp.call.agent]) = 1
    /\ Len(Mailbox(QUEUES, resp.call.agent)) = 1
    /\ \E k \in AgentIds \ {resp.call.agent} : Len(Mailbox(QUEUES, k)) = 1


\* ------------------------------------------------------------------------
\* Where an accepted reply comes from
\* ------------------------------------------------------------------------
\* C25 as stated (provenance of the accepted reply): the envelope a run
\* ends Accepted with was enqueued by the Analyst's step as the reply to the
\* run's own request: its sender is "Analyst", its type "confirm" and its
\* source_pointer the pointer the run stored; nothing from another sender or
\* of another type is accepted.
C25_AcceptedFromAgentStep ==
    \A d \in Drivers :
        drv[d].pc = "Accepted" =>
            /\ drv[d].reply_msg.sender = "Analyst"
            /\ drv[d].reply_msg.type = "confirm"
            /\ "source_pointer" \in DOMAIN drv[d].reply_msg.payload
            /\ drv[d].reply_msg.payload.source_pointer = drv[d].pointer

\* C25 (provenance of the accepted reply, as the code has it): the envelope
\* a run accepts is addressed to "Researcher" and carries the run's conv_id,
\* and that is all the run tests.  It is either a reply the Analyst's step
\* enqueued for an envelope it consumed with that conv_id, and then its
\* sender is "Analyst", its type "confirm" and its source_pointer the pointer
\* of the envelope consumed (the run's own pointer when that envelope is the
\* run's request); or an envelope some other sender put in the "Researcher"
\* mailbox with the run's conv_id, whatever its sender and type.
C25_AcceptedByConvId ==
    \A d \in Drivers :
        drv[d].reply_msg # None =>
            LET m == drv[d].reply_msg
            IN /\ m.conv_id = drv[d].conv_id
               /\ m.receiver = "Researcher"
               /\ \/ \E p \in astep.log :
                        /\ p.reply = m
                        /\ p.inbound.conv_id = drv[d].conv_id
                        /\ m.sender = "Analyst"
                        /\ m.type = "confirm"
                        /\ m.payload.source_pointer = PointerOf(p.inbound)
                        /\ p.inbound = RequestMsg(drv[d].pointer, drv[d].conv_id)
                              => m.payload.source_pointer = drv[d].pointer
                  \/ /\ m \in ClientBodies
                     /\ m.sender # "Analyst"
                     /\ \A p \in astep.log : p.reply # m

\* A run ended Accepted with the reply the Analyst's step enqueued for the
\* run's own request, after an outside sender's envelope with another
\* conv_id went by as a stray.
C25_Witness ==
    /\ drv["d1"].pc = "Accepted"
    /\ \E p \in astep.log :
          /\ p.reply = drv["d1"].reply_msg
          /\ p.inbound = RequestMsg(drv["d1"].pointer, drv["d1"].conv_id)
    /\ Len(drv["d1"].stray_msgs) = 1


\* ------------------------------------------------------------------------
\* After a run has ended
\* ------------------------------------------------------------------------
\* The replies the Analyst's step enqueued for the request of run e when e
\* had already ended.
LateReplies(e) ==
    {p.reply : p \in {x \in astep.log :
                         /\ e \in x.ended
                         /\ x.inbound = RequestMsg(drv[e].pointer, drv[e].conv_id)}}

\* C26 (quiescence after a terminal state): a run that has ended Failed,
\* Accepted or TimedOut takes no further step: it sends, triggers and polls
\* nothing more and its record stays as it is.  In every step the
\* "Researcher" mailbox keeps what it held, in order, except that a poll by
\* another run or by the Researcher agent takes its head; so a reply to a
\* timed-out run's request enqueued after that run ended waits there until
\* such a poll pops it.  A run that pops such a reply appends it to its
\* stray_msgs and accepts nothing in that round.
C26_Quiescence ==
    [][/\ \A e \in Drivers :
            drv[e].pc \in Outcomes =>
                /\ drv'[e] = drv[e]
                /\ ~ (DriverStart(e, TRUE) \/ DriverSend(e, TRUE) \/ DriverLoopTest(e)
                        \/ DriverTrigger(e, 0, "none") \/ DriverPoll(e, POLL_TIMEOUT, TRUE)
                        \/ DriverSleep(e) \/ DriverReport(e))
       /\ LET q == Mailbox(QUEUES, "Researcher")
              q1 == Mailbox(QUEUES', "Researcher")
          IN \/ IsPrefix(q, q1)
             \/ /\ q # << >>
                /\ q1 = Tail(q)
                /\ \/ RESEARCHER_INBOX' = Append(RESEARCHER_INBOX, Head(q))
                   \/ \E d \in Drivers :
                         /\ drv[d].pc = "poll"
                         /\ drv'[d].popped = Append(drv[d].popped, Head(q))
       /\ \A d \in Drivers : \A e \in Drivers \ {d} :
            LET q == Mailbox(QUEUES, "Researcher")
            IN (/\ drv[e].pc = "TimedOut"
                /\ drv[d].pc = "poll"
                /\ drv'[d].pc # "poll"
                /\ q # << >>
                /\ Head(q) \in LateReplies(e)) =>
                   /\ drv'[d].stray_msgs = Append(drv[d].stray_msgs, Head(q))
                   /\ drv'[d].reply_msg = None
                   /\ drv'[d].pc = "sleep"
                   /\ drv'[e] = drv[e]
      ]_vars

\* A run timed out with its request unanswered; the reply to that request
\* was enqueued after it had ended, and a later run popped it as a stray
\* and went on to accept its own reply.
C26_Witness ==
    /\ drv["d1"].pc = "TimedOut"
    /\ drv["d2"].pc = "Accepted"
    /\ Len(drv["d2"].stray_msgs) = 1
    /\ drv["d2"].stray_msgs[1] \in LateReplies("d1")
    /\ drv["d2"].reply_msg.conv_id = ConvOf("d2")

====
